---------------------------- MODULE Spec2Model ----------------------------
(***************************************************************************)
(* ZephyrusDB: the Driver of src/db/driver.go (LRU cache, B-tree index,    *)
(* one file per key, JSON snapshot of the index) as a state machine.       *)
(*                                                                         *)
(* Strings and byte slices are sequences of byte values 0..255.  A file    *)
(* name is the key itself: filepath.Join(d.dir, key) of a key without a    *)
(* path separator names the entry `key` of the root directory.             *)
(***************************************************************************)
EXTENDS Integers, Sequences, FiniteSets, TLC

VARIABLES
    cache,   \* d.cache: the LRU list, most recently used first, of [key, value]
    tree,    \* d.tree: the B-tree as the map key -> Value it represents
    files,   \* the root directory d.dir: file name -> content
    last,    \* the call that returned (or was cut by a crash) last, and its result
    keys,    \* the keys the embedder calls the Driver with (fixed in a behaviour)
    calls,   \* the number of calls the embedder has still to make
    window,  \* how many calls before the last one are remembered (fixed)
    hist,    \* the calls before the last one in short, oldest first, at most window
    capacity,  \* the size the cache was created with (cacheSize of New)
    pc,        \* goroutine -> where it is in its call ("idle": in no call)
    cur,       \* goroutine -> the call it is in: arguments, locals and result
    mutex,     \* d.mutex: the writer that has called Lock(), the readers inside
    committed, \* what the last Put or Delete that returned success left of the key
    twin       \* a second Driver (cache, tree, directory, cache size) and the
               \* result of its last call

vars == <<cache, tree, files, last, keys, calls, window, hist, capacity,
          pc, cur, mutex, committed, twin>>

-----------------------------------------------------------------------------
(* Bounds of the model *)

\* size of the LRU cache (cacheSize of New)
CacheSize == 1
\* values are the byte slices <<>>, <<1>>, <<1,2>>, ... up to this length
MaxValLen == 1
\* a behaviour is a sequence of at most this many calls
MaxCalls == 4
\* the goroutines that call the Driver
MaxThreads == 2

-----------------------------------------------------------------------------
(* Inputs *)

\* ".tmp"
TmpSuffix == <<46, 116, 109, 112>>
\* "a"
KeyA == <<97>>
\* "a.tmp": a key whose file name is the temp path of key "a"
KeyATmp == KeyA \o TmpSuffix
\* "b" and "c"
KeyB == <<98>>
KeyC == <<99>>
\* "\xff": a key that is no valid UTF-8
KeyBad == <<255>>
\* ""
EmptyKey == <<>>
\* "btree.json", the snapshot main() loads at start and saves at shutdown
SnapPath == <<98, 116, 114, 101, 101, 46, 106, 115, 111, 110>>

Keys == {KeyA, KeyATmp}
\* keys of a snapshot: one that is valid UTF-8 and one that is not
CodecKeys == {KeyA, KeyBad}
\* more keys than the cache holds
CacheKeys == {KeyA, KeyB, KeyC}
\* the keys two Drivers are compared on
PairKeys == {KeyA, KeyB}
Values == {SubSeq(<<1, 2, 3, 4>>, 1, n) : n \in 0..MaxValLen}
\* the paths handed to DeserializeBTree: the snapshot and its temp file
LoadPaths == {SnapPath, SnapPath \o TmpSuffix}

-----------------------------------------------------------------------------
(* Byte strings *)

Max(S) == CHOOSE x \in S : \A y \in S : y <= x

\* Go's s < t on strings: byte-wise lexicographic order
RECURSIVE StrLess(_, _)
StrLess(s, t) ==
    IF t = <<>> THEN FALSE
    ELSE IF s = <<>> THEN TRUE
    ELSE IF s[1] # t[1] THEN s[1] < t[1]
    ELSE StrLess(Tail(s), Tail(t))

Less(i, than) == StrLess(i, than)

\* filepath.Ext: the suffix beginning at the final dot, "" if there is none
Ext(name) ==
    LET dots == {i \in 1..Len(name) : name[i] = 46}
    IN  IF dots = {} THEN <<>> ELSE SubSeq(name, Max(dots), Len(name))

\* the proper prefixes of a byte slice: what a failed write can leave behind
Prefixes(b) == {SubSeq(b, 1, n) : n \in 0..(Len(b) - 1)}

-----------------------------------------------------------------------------
(* The root directory.  A file's content is [raw |-> bytes] for bytes that  *)
(* are no JSON text (every value of Values: the bytes 1, 2, ... are control *)
(* characters), or a JSON text written by SerializeBTree: JsonNull,         *)
(* JsonArray(elems), or JsonTruncated, a proper prefix of such a text.      *)

Raw(b) == [raw |-> b]
JsonNull == [json |-> "null"]
JsonArray(elems) == [json |-> "array", elems |-> elems]
JsonTruncated == [json |-> "truncated"]

Exists(fs, name) == name \in DOMAIN fs

\* os.WriteFile succeeding: the file holds exactly data afterwards
WriteFile(fs, name, data) ==
    [n \in DOMAIN fs \cup {name} |-> IF n = name THEN data ELSE fs[n]]

\* os.Rename succeeding: newpath is replaced atomically, oldpath is gone
Rename(fs, oldpath, newpath) ==
    [n \in (DOMAIN fs \ {oldpath}) \cup {newpath} |->
        IF n = newpath THEN fs[oldpath] ELSE fs[n]]

\* a removal that removes nothing
RemoveNothing(fs, name) == fs

\* os.Remove succeeding
Remove(fs, name) == [n \in DOMAIN fs \ {name} |-> fs[n]]

\* what a failed or interrupted write of data may leave in a file
PartialOf(data) ==
    IF "raw" \in DOMAIN data THEN {Raw(p) : p \in Prefixes(data.raw)}
    ELSE {JsonTruncated}

FilePath(key) == key

\* a temp path that is the path itself: the write goes to the file in place
InPlace(filePath) == filePath

TempPath(filePath) == filePath \o TmpSuffix

-----------------------------------------------------------------------------
(* d.cache: hashicorp/golang-lru, as driver.go uses it *)

CacheContains(c, key) == \E i \in 1..Len(c) : c[i].key = key
CacheValue(c, key) == c[CHOOSE i \in 1..Len(c) : c[i].key = key].value
CacheWithout(c, key) == SelectSeq(c, LAMBDA e : e.key # key)

\* a cache.Add that adds nothing
CacheAddNothing(c, key, value) == c

\* cache.Add: refresh an entry, or push a new one and evict the oldest on overflow
CacheAdd(c, key, value) ==
    LET front == <<[key |-> key, value |-> value]>>
    IN  IF CacheContains(c, key) THEN front \o CacheWithout(c, key)
        ELSE IF Len(c) + 1 > capacity THEN front \o SubSeq(c, 1, Len(c) - 1)
        ELSE front \o c

\* cache.Add of a cache of size n
CacheAddN(c, key, value, n) ==
    LET front == <<[key |-> key, value |-> value]>>
    IN  IF CacheContains(c, key) THEN front \o CacheWithout(c, key)
        ELSE IF Len(c) + 1 > n THEN front \o SubSeq(c, 1, Len(c) - 1)
        ELSE front \o c

\* a cache.Get that leaves the order of the entries alone
CacheNoTouch(c, key) == c

\* cache.Get on a hit: the entry becomes the most recently used
CacheTouch(c, key) ==
    <<[key |-> key, value |-> CacheValue(c, key)]>> \o CacheWithout(c, key)

\* cache.Remove
CacheRemove(c, key) == CacheWithout(c, key)

-----------------------------------------------------------------------------
(* d.tree: google/btree with items ordered by Key *)

EmptyTree == [k \in {} |-> <<>>]
TreeHas(t, key) == key \in DOMAIN t
ReplaceOrInsert(t, key, value) ==
    [k \in DOMAIN t \cup {key} |-> IF k = key THEN value ELSE t[k]]
TreeDelete(t, key) == [k \in DOMAIN t \ {key} |-> t[k]]

\* tree.Ascend collecting the items: ascending by Key
RECURSIVE AscendFrom(_, _)
AscendFrom(t, ks) ==
    IF ks = {} THEN <<>>
    ELSE LET k == CHOOSE x \in ks : \A y \in ks \ {x} : Less(x, y)
         IN  <<[Key |-> k, Value |-> t[k]]>> \o AscendFrom(t, ks \ {k})

Ascend(t) == AscendFrom(t, DOMAIN t)

\* tree.Clear, then ReplaceOrInsert of every item in order
RECURSIVE InsertAll(_, _)
InsertAll(t, items) ==
    IF items = <<>> THEN t
    ELSE InsertAll(ReplaceOrInsert(t, items[1].Key, items[1].Value), Tail(items))

-----------------------------------------------------------------------------
(* encoding/json on []item, item = struct{Key string; Value []byte}.       *)
(* A JSON string is held as the string it denotes (the escapes Marshal     *)
(* writes are the ones Unmarshal undoes); what Marshal does to the bytes   *)
(* of a Go string that are no valid UTF-8, and the base64 text of a        *)
(* []byte, are computed.                                                   *)

Cont(s, i) == Len(s) >= i /\ s[i] >= 128 /\ s[i] <= 191
InRange(s, i, lo, hi) == Len(s) >= i /\ s[i] >= lo /\ s[i] <= hi

\* utf8.DecodeRuneInString: the size of the rune encoded at the head of s,
\* 0 when the head is no valid encoding (RuneError with size 1)
RuneLen(s) ==
    LET b == s[1]
    IN  IF b < 128 THEN 1
        ELSE IF b >= 194 /\ b <= 223 THEN (IF Cont(s, 2) THEN 2 ELSE 0)
        ELSE IF b = 224 THEN (IF InRange(s, 2, 160, 191) /\ Cont(s, 3) THEN 3 ELSE 0)
        ELSE IF b = 237 THEN (IF InRange(s, 2, 128, 159) /\ Cont(s, 3) THEN 3 ELSE 0)
        ELSE IF b >= 225 /\ b <= 239 THEN (IF Cont(s, 2) /\ Cont(s, 3) THEN 3 ELSE 0)
        ELSE IF b = 240
             THEN (IF InRange(s, 2, 144, 191) /\ Cont(s, 3) /\ Cont(s, 4) THEN 4 ELSE 0)
        ELSE IF b >= 241 /\ b <= 243
             THEN (IF Cont(s, 2) /\ Cont(s, 3) /\ Cont(s, 4) THEN 4 ELSE 0)
        ELSE IF b = 244
             THEN (IF InRange(s, 2, 128, 143) /\ Cont(s, 3) /\ Cont(s, 4) THEN 4 ELSE 0)
        ELSE 0

\* U+FFFD, the replacement rune, in UTF-8
ReplacementRune == <<239, 191, 189>>

\* a Go string as json.Marshal writes it and json.Unmarshal reads it:
\* coerced to valid UTF-8, every invalid byte replaced by U+FFFD
RECURSIVE CoerceUTF8(_)
CoerceUTF8(s) ==
    IF s = <<>> THEN <<>>
    ELSE LET n == RuneLen(s)
         IN  IF n = 0 THEN ReplacementRune \o CoerceUTF8(Tail(s))
             ELSE SubSeq(s, 1, n) \o CoerceUTF8(SubSeq(s, n + 1, Len(s)))

\* base64.StdEncoding: the character of a 6-bit digit, and back (-1: none)
B64Char(d) ==
    IF d < 26 THEN 65 + d
    ELSE IF d < 52 THEN 97 + (d - 26)
    ELSE IF d < 62 THEN 48 + (d - 52)
    ELSE IF d = 62 THEN 43 ELSE 47

B64Digit(c) ==
    IF c >= 65 /\ c <= 90 THEN c - 65
    ELSE IF c >= 97 /\ c <= 122 THEN c - 97 + 26
    ELSE IF c >= 48 /\ c <= 57 THEN c - 48 + 52
    ELSE IF c = 43 THEN 62
    ELSE IF c = 47 THEN 63 ELSE -1

\* '='
B64Pad == 61

\* how json.Marshal writes a []byte: base64 with padding
RECURSIVE B64Encode(_)
B64Encode(b) ==
    IF Len(b) = 0 THEN <<>>
    ELSE IF Len(b) = 1
    THEN <<B64Char(b[1] \div 4), B64Char((b[1] % 4) * 16), B64Pad, B64Pad>>
    ELSE IF Len(b) = 2
    THEN <<B64Char(b[1] \div 4), B64Char((b[1] % 4) * 16 + b[2] \div 16),
           B64Char((b[2] % 16) * 4), B64Pad>>
    ELSE <<B64Char(b[1] \div 4), B64Char((b[1] % 4) * 16 + b[2] \div 16),
           B64Char((b[2] % 16) * 4 + b[3] \div 64), B64Char(b[3] % 64)>>
         \o B64Encode(SubSeq(b, 4, Len(b)))

\* how json.Unmarshal reads a []byte: [ok, bytes]
RECURSIVE B64Decode(_)
B64Decode(s) ==
    IF Len(s) = 0 THEN [ok |-> TRUE, bytes |-> <<>>]
    ELSE IF Len(s) < 4 THEN [ok |-> FALSE, bytes |-> <<>>]
    ELSE LET d1 == B64Digit(s[1])
             d2 == B64Digit(s[2])
             d3 == B64Digit(s[3])
             d4 == B64Digit(s[4])
             rest == B64Decode(SubSeq(s, 5, Len(s)))
         IN  IF d1 < 0 \/ d2 < 0 THEN [ok |-> FALSE, bytes |-> <<>>]
             ELSE IF s[3] = B64Pad
             THEN [ok |-> s[4] = B64Pad /\ Len(s) = 4,
                   bytes |-> <<d1 * 4 + d2 \div 16>>]
             ELSE IF d3 < 0 THEN [ok |-> FALSE, bytes |-> <<>>]
             ELSE IF s[4] = B64Pad
             THEN [ok |-> Len(s) = 4,
                   bytes |-> <<d1 * 4 + d2 \div 16, (d2 % 16) * 16 + d3 \div 4>>]
             ELSE IF d4 < 0 THEN [ok |-> FALSE, bytes |-> <<>>]
             ELSE [ok |-> rest.ok,
                   bytes |-> <<d1 * 4 + d2 \div 16, (d2 % 16) * 16 + d3 \div 4,
                               (d3 % 4) * 64 + d4>> \o rest.bytes]

\* json.Marshal(items): a nil slice is written as null
Marshal(items) ==
    IF items = <<>> THEN JsonNull
    ELSE JsonArray([i \in 1..Len(items) |->
                      [Key |-> CoerceUTF8(items[i].Key),
                       Value |-> B64Encode(items[i].Value)]])

\* json.Unmarshal(data, &items): [ok, items]
Unmarshal(data) ==
    IF "raw" \in DOMAIN data THEN [ok |-> FALSE, items |-> <<>>]
    ELSE IF data = JsonNull THEN [ok |-> TRUE, items |-> <<>>]
    ELSE IF data = JsonTruncated THEN [ok |-> FALSE, items |-> <<>>]
    ELSE [ok |-> \A i \in 1..Len(data.elems) : B64Decode(data.elems[i].Value).ok,
          items |-> [i \in 1..Len(data.elems) |->
                       [Key |-> CoerceUTF8(data.elems[i].Key),
                        Value |-> B64Decode(data.elems[i].Value).bytes]]]

\* the text of the elements of a document from the i-th on, as Marshal
\* writes them: {"Key":"...","Value":"..."} separated by commas
RECURSIVE ElemsText(_, _)
ElemsText(elems, i) ==
    IF i > Len(elems) THEN <<>>
    ELSE <<123, 34, 75, 101, 121, 34, 58, 34>> \o elems[i].Key
         \o <<34, 44, 34, 86, 97, 108, 117, 101, 34, 58, 34>> \o elems[i].Value
         \o <<34, 125>>
         \o (IF i < Len(elems) THEN <<44>> ELSE <<>>)
         \o ElemsText(elems, i + 1)

\* os.ReadFile: the bytes of a file, those of a document being its text (of a
\* part of a document, its first byte)
ReadFile(fs, name) ==
    LET data == fs[name]
    IN  IF "raw" \in DOMAIN data THEN data.raw
        ELSE IF data = JsonNull THEN <<110, 117, 108, 108>>
        ELSE IF data = JsonTruncated THEN <<91>>
        ELSE <<91>> \o ElemsText(data.elems, 1) \o <<93>>

-----------------------------------------------------------------------------
(* What a call may run into.  A call either runs to its return ("done"),   *)
(* returns the error of a failing os call ("err_..."), or is cut by the    *)
(* end of the process ("crash_..."); after a crash the process is started  *)
(* again and New builds an empty cache and an empty tree over the          *)
(* directory as the crash left it.                                         *)

\* os.WriteFile, os.Rename of a write: where the call stops
WriteStops == {"done", "err_open", "err_write", "err_rename",
               "crash_before_write", "crash_in_write", "crash_after_write",
               "crash_after_rename"}

Crashed(stop) == stop \in {"crash_before_write", "crash_in_write",
                           "crash_after_write", "crash_after_rename"}

\* the stops that leave a part of the data in the temp file
Partial(stop) == stop \in {"err_write", "crash_in_write"}

\* the result a call returns
Result(stop) ==
    IF stop = "done" THEN "ok" ELSE IF Crashed(stop) THEN "crash" ELSE "IOFailure"

\* the os calls a write makes up to its stop, "X:err" being a call of X that
\* returned an error
WriteCalls(stop) ==
    IF stop = "crash_before_write" THEN <<>>
    ELSE IF stop \in {"err_open", "err_write"} THEN <<"WriteFile:err">>
    ELSE IF stop \in {"crash_in_write", "crash_after_write"} THEN <<"WriteFile">>
    ELSE IF stop = "err_rename" THEN <<"WriteFile", "Rename:err">>
    ELSE <<"WriteFile", "Rename">>

\* a write that goes to filePath itself
WriteInPlace(fs, filePath, data, stop, part) ==
    IF stop \in {"err_open", "crash_before_write"} THEN fs
    ELSE IF Partial(stop) THEN WriteFile(fs, filePath, part)
    ELSE WriteFile(fs, filePath, data)

\* the write-temp-then-rename of Put and of SerializeBTree: the directory after
\* a write of data to filePath that stops at stop, part being what an
\* unfinished os.WriteFile left in the temp file
WriteTempThenRename(fs, filePath, data, stop, part) ==
    LET tempPath == TempPath(filePath)
    IN  IF stop \in {"err_open", "crash_before_write"} THEN fs
        ELSE IF Partial(stop) THEN WriteFile(fs, tempPath, part)
        ELSE IF stop \in {"err_rename", "crash_after_write"}
        THEN WriteFile(fs, tempPath, data)
        ELSE Rename(WriteFile(fs, tempPath, data), tempPath, filePath)

\* the parts an unfinished write of data can leave: none unless the stop is partial
Parts(data, stop) == IF Partial(stop) THEN PartialOf(data) ELSE {data}

\* the call that returned: boot tells that the Driver has served no call since
\* the process started but DeserializeBTree of the snapshot, as main() does (a
\* crash ends the process, and the next call is served by the process started
\* after it)
Returned(op, key, val, res, out, io) ==
    last' = [op |-> op, key |-> key, val |-> val, res |-> res, out |-> out, io |-> io,
             boot |-> (op = "New" \/ res = "crash"
                       \/ (op = "DeserializeBTree" /\ key = SnapPath /\ last.boot))]

-----------------------------------------------------------------------------
(* The Driver *)

\* a goroutine that is in no call
NoCall == [op |-> "none", key |-> <<>>, val |-> <<>>, res |-> "ok", out |-> <<>>,
           data |-> [raw |-> <<>>]]

\* New(dir, logger, cacheSize, degree) creating the directory: an empty cache
\* of the given size and an empty tree.  The embedder uses the keys ks and makes
\* at most n calls, of which the last one and the w calls before it are
\* remembered.
\* A second Driver is created over a directory of its own with the cache size
\* twinSize.
InitTwin(ks, n, w, cacheSize, twinSize) ==
    /\ twin = [cache |-> <<>>, tree |-> EmptyTree, files |-> [f \in {} |-> Raw(<<>>)],
               capacity |-> twinSize, res |-> "ok", out |-> <<>>]
    /\ pc = [t \in 1..MaxThreads |-> "idle"]
    /\ cur = [t \in 1..MaxThreads |-> NoCall]
    /\ mutex = [writer |-> 0, readers |-> {}]
    /\ committed = [res |-> "NotFound", out |-> <<>>]
    /\ keys = ks
    /\ capacity = cacheSize
    /\ calls = n
    /\ window = w
    /\ hist = <<>>
    /\ cache = <<>>
    /\ tree = EmptyTree
    /\ files = [f \in {} |-> Raw(<<>>)]
    /\ last = [op |-> "New", key |-> <<>>, val |-> <<>>, res |-> "ok",
               out |-> <<>>, io |-> <<>>, boot |-> TRUE]

InitWith(ks, n, w, cacheSize) == InitTwin(ks, n, w, cacheSize, cacheSize)

Init == InitWith(Keys, MaxCalls, 0, CacheSize)

\* New over the existing directory: the process is started again
Restart ==
    /\ cache' = <<>>
    /\ tree' = EmptyTree
    /\ UNCHANGED files
    /\ Returned("New", <<>>, <<>>, "ok", <<>>, <<>>)

\* a Put that never finds the value unchanged
NeverUnchanged(t, key, value) == FALSE

\* Put's test that the tree already holds the value
Unchanged(t, key, value) == TreeHas(t, key) /\ t[key] = value

Put(key, value, stop, part) ==
    IF key = EmptyKey
    THEN /\ stop = "done"
         /\ UNCHANGED <<cache, tree, files>>
         /\ Returned("Put", key, value, "InvalidArgument", <<>>, <<>>)
    ELSE IF Unchanged(tree, key, value)
    THEN /\ stop = "done"
         /\ UNCHANGED <<cache, tree, files>>
         /\ Returned("Put", key, value, "ok", <<>>, <<>>)
    ELSE /\ cache' = IF Crashed(stop) THEN <<>> ELSE CacheAdd(cache, key, value)
         /\ tree' = IF Crashed(stop) THEN EmptyTree
                    ELSE ReplaceOrInsert(tree, key, value)
         /\ files' = WriteTempThenRename(files, FilePath(key), Raw(value), stop, part)
         /\ Returned("Put", key, value, Result(stop), <<>>, WriteCalls(stop))

\* where Get finds the key: "cache", "tree", "disk" or "none"
Tier(c, t, fs, key) ==
    IF CacheContains(c, key) THEN "cache"
    ELSE IF TreeHas(t, key) THEN "tree"
    ELSE IF Exists(fs, FilePath(key)) THEN "disk"
    ELSE "none"

\* what Get returns when no read fails: [res, out]
GetResult(c, t, fs, key) ==
    LET tier == Tier(c, t, fs, key)
    IN  IF key = EmptyKey THEN [res |-> "InvalidArgument", out |-> <<>>]
        ELSE IF tier = "cache" THEN [res |-> "ok", out |-> CacheValue(c, key)]
        ELSE IF tier = "tree" THEN [res |-> "ok", out |-> t[key]]
        ELSE IF tier = "disk" THEN [res |-> "ok", out |-> ReadFile(fs, FilePath(key))]
        ELSE [res |-> "NotFound", out |-> <<>>]

Get(key, stop) ==
    LET tier == IF key = EmptyKey THEN "invalid" ELSE Tier(cache, tree, files, key)
        got == GetResult(cache, tree, files, key)
        io == IF tier = "disk" THEN <<"ReadFile">>
              ELSE IF tier = "none" THEN <<"ReadFile:err">>
              ELSE <<>>
    IN  IF stop = "err_read"
        THEN /\ tier = "disk"
             /\ UNCHANGED <<cache, tree, files>>
             /\ Returned("Get", key, <<>>, "IOFailure", <<>>, <<"ReadFile:err">>)
        ELSE /\ stop = "done"
             /\ cache' = IF tier = "cache" THEN CacheTouch(cache, key)
                         ELSE IF tier \in {"tree", "disk"}
                         THEN CacheAdd(cache, key, got.out)
                         ELSE cache
             /\ tree' = IF tier = "disk" THEN ReplaceOrInsert(tree, key, got.out)
                        ELSE tree
             /\ UNCHANGED files
             /\ Returned("Get", key, <<>>, got.res, got.out, io)

\* a Delete that does not ask the tree
NeverMissing(t, key) == FALSE

\* Delete's test that the tree does not hold the key (tree.Delete returns nil)
Missing(t, key) == ~TreeHas(t, key)

Delete(key, stop) ==
    IF key = EmptyKey
    THEN /\ stop = "done"
         /\ UNCHANGED <<cache, tree, files>>
         /\ Returned("Delete", key, <<>>, "InvalidArgument", <<>>, <<>>)
    ELSE IF Missing(tree, key)
    THEN /\ stop = "done"
         /\ UNCHANGED <<cache, tree, files>>
         /\ Returned("Delete", key, <<>>, "NotFound", <<>>, <<>>)
    ELSE /\ tree' = TreeDelete(tree, key)
         /\ cache' = CacheRemove(cache, key)
         /\ IF stop = "err_remove"
            THEN /\ Exists(files, FilePath(key))
                 /\ UNCHANGED files
                 /\ Returned("Delete", key, <<>>, "IOFailure", <<>>, <<"Remove:err">>)
            ELSE /\ stop = "done"
                 /\ files' = Remove(files, FilePath(key))
                 /\ Returned("Delete", key, <<>>, "ok", <<>>,
                             IF Exists(files, FilePath(key)) THEN <<"Remove">>
                             ELSE <<"Remove:err">>)

\* a test that takes every name with an extension for a temporary file
HasExt(name) == Ext(name) # <<>>

\* Compact's test for a temporary file
IsTemp(name) == Ext(name) = TmpSuffix

\* the directory after Compact's loop, failing being the files os.Remove fails on
Sweep(fs, failing) ==
    [n \in {m \in DOMAIN fs : ~IsTemp(m) \/ m \in failing} |-> fs[n]]

\* os.ReadDir: the names of the directory, sorted
RECURSIVE Sorted(_)
Sorted(names) ==
    IF names = {} THEN <<>>
    ELSE LET n == CHOOSE x \in names : \A y \in names \ {x} : StrLess(x, y)
         IN  <<n>> \o Sorted(names \ {n})

\* the os.Remove calls of Compact's loop over the listed names
RECURSIVE Removals(_, _)
Removals(names, failing) ==
    IF names = <<>> THEN <<>>
    ELSE (IF ~IsTemp(names[1]) THEN <<>>
          ELSE IF names[1] \in failing THEN <<"Remove:err">>
          ELSE <<"Remove">>) \o Removals(Tail(names), failing)

Compact(stop, failing) ==
    IF stop = "err_readdir"
    THEN /\ failing = {}
         /\ UNCHANGED <<cache, tree, files>>
         /\ Returned("Compact", <<>>, <<>>, "IOFailure", <<>>, <<"ReadDir:err">>)
    ELSE /\ stop = "done"
         /\ files' = Sweep(files, failing)
         /\ UNCHANGED <<cache, tree>>
         /\ Returned("Compact", <<>>, <<>>, "ok", <<>>,
                     <<"ReadDir">> \o Removals(Sorted(DOMAIN files), failing))

SerializeBTree(filePath, stop, part) ==
    /\ cache' = IF Crashed(stop) THEN <<>> ELSE cache
    /\ tree' = IF Crashed(stop) THEN EmptyTree ELSE tree
    /\ files' = WriteTempThenRename(files, filePath, Marshal(Ascend(tree)), stop, part)
    /\ Returned("SerializeBTree", filePath, <<>>, Result(stop), <<>>, WriteCalls(stop))

\* the decoded items put into the tree as it is, without tree.Clear
Merged(items) == InsertAll(tree, items)

\* the tree DeserializeBTree builds from the decoded items
Rebuilt(items) == InsertAll(EmptyTree, items)

DeserializeBTree(filePath, stop) ==
    IF ~Exists(files, filePath)
    THEN /\ stop = "done"
         /\ UNCHANGED <<cache, tree, files>>
         /\ Returned("DeserializeBTree", filePath, <<>>, "IOFailure", <<>>,
                     <<"ReadFile:err">>)
    ELSE IF stop = "err_read"
    THEN /\ UNCHANGED <<cache, tree, files>>
         /\ Returned("DeserializeBTree", filePath, <<>>, "IOFailure", <<>>,
                     <<"ReadFile:err">>)
    ELSE IF ~Unmarshal(files[filePath]).ok
    THEN /\ stop = "done"
         /\ UNCHANGED <<cache, tree, files>>
         /\ Returned("DeserializeBTree", filePath, <<>>, "DecodeFailure", <<>>,
                     <<"ReadFile">>)
    ELSE /\ stop = "done"
         /\ tree' = Rebuilt(Unmarshal(files[filePath]).items)
         /\ UNCHANGED <<cache, files>>
         /\ Returned("DeserializeBTree", filePath, <<>>, "ok", <<>>, <<"ReadFile">>)

-----------------------------------------------------------------------------
(* The calls of the embedder, one at a time *)

PutCall ==
    \E key \in keys, value \in Values, stop \in WriteStops :
        \E part \in Parts(Raw(value), stop) : Put(key, value, stop, part)

GetCall == \E key \in keys, stop \in {"done", "err_read"} : Get(key, stop)

DeleteCall ==
    \E key \in keys, stop \in {"done", "err_remove"} : Delete(key, stop)

CompactCall ==
    \E stop \in {"done", "err_readdir"} :
        \E failing \in SUBSET {n \in DOMAIN files : IsTemp(n)} : Compact(stop, failing)

SerializeCall ==
    \E stop \in WriteStops :
        \E part \in Parts(Marshal(Ascend(tree)), stop) :
            SerializeBTree(SnapPath, stop, part)

DeserializeCall ==
    \E filePath \in LoadPaths, stop \in {"done", "err_read"} :
        DeserializeBTree(filePath, stop)

\* a remembered call in short: a Put or a Delete with its key and result, or
\* some other call
Short(l) ==
    IF l.op \in {"Put", "Delete"} THEN [op |-> l.op, key |-> l.key, res |-> l.res]
    ELSE [op |-> "other", key |-> <<>>, res |-> "ok"]

\* one call of the embedder: the calls are counted and the key set stays
Step(call) ==
    /\ calls > 0
    /\ calls' = calls - 1
    /\ hist' = IF window = 0 THEN <<>>
               ELSE IF Len(hist) < window THEN Append(hist, Short(last))
               ELSE Append(Tail(hist), Short(last))
    /\ UNCHANGED <<keys, window, capacity, pc, cur, mutex, committed, twin>>
    /\ call

Next ==
    \/ Step(PutCall)
    \/ Step(GetCall)
    \/ Step(DeleteCall)
    \/ Step(CompactCall)
    \/ Step(SerializeCall)
    \/ Step(DeserializeCall)
    \/ Step(Restart)

Spec == Init /\ [][Next]_vars

\* one key, and longer runs
InitOneKey == InitWith({KeyA}, MaxCalls + 2, 0, CacheSize)
SpecOneKey == InitOneKey /\ [][Next]_vars

\* one key, with the two calls before the last one remembered
InitTrace == InitWith({KeyA}, MaxCalls + 1, 2, CacheSize)
SpecTrace == InitTrace /\ [][Next]_vars

\* the keys of CodecKeys
InitCodec == InitWith(CodecKeys, MaxCalls, 0, CacheSize)
SpecCodec == InitCodec /\ [][Next]_vars

\* three keys over a cache one entry larger, and the calls that use the cache
InitCache == InitWith(CacheKeys, MaxCalls, 0, CacheSize + 1)
NextCache ==
    \/ Step(PutCall)
    \/ Step(GetCall)
    \/ Step(DeleteCall)
    \/ Step(Restart)
SpecCache == InitCache /\ [][NextCache]_vars

-----------------------------------------------------------------------------
(* The Driver called from several goroutines.  A call is a sequence of     *)
(* steps, one for each access to the mutex, the cache, the tree or the     *)
(* directory; the steps of different goroutines interleave.                *)

Threads == 1..MaxThreads

\* the calls that take d.mutex.Lock(); Get takes d.mutex.RLock()
WriterOps == {"Put", "Delete", "Compact", "SerializeBTree", "DeserializeBTree"}

\* the positions of a goroutine between Lock() and Unlock(), and between
\* RLock() and RUnlock()
LockedSection == {"body", "write", "rename", "remove", "unlock"}
RLockedSection == {"cacheGet", "treeGet", "readFile", "cacheAddTree",
                   "cacheAddDisk", "treeInsert", "runlock"}
Inside(t) == pc[t] \in LockedSection \cup RLockedSection

\* the positions whose next step reads the tree, and writes it
TreeReads == {"treeGet"}
TreeWrites == {"treeInsert"}
TreeAccess(t) ==
    \/ pc[t] \in TreeReads \cup TreeWrites
    \/ pc[t] = "body" /\ cur[t].op \in {"Put", "Delete", "SerializeBTree",
                                         "DeserializeBTree"}
TreeWrite(t) ==
    \/ pc[t] \in TreeWrites
    \/ pc[t] = "body" /\ cur[t].op \in {"Put", "Delete", "DeserializeBTree"}

\* the step goroutine t is about to take on the tree is unordered with a step
\* of another goroutine on the tree, one of the two being a write: a data race
Racing(t) ==
    \E u \in Threads \ {t} :
        TreeAccess(t) /\ TreeAccess(u) /\ (TreeWrite(t) \/ TreeWrite(u))

\* a key test that lets every key through
NeverInvalid(key) == FALSE

\* the test Put, Get and Delete make before they take the lock
Invalid(key) == key = EmptyKey

\* sync.RWMutex: Lock() first excludes the other writers and announces itself
\* to the readers, then waits for the readers inside to leave; RLock() waits
\* while a writer has announced itself
CanLock(m) == m.writer = 0
CanRLock(m) == m.writer = 0

\* a Lock() that does not wait for the readers
ReadersIgnored(m) == TRUE

NoReaders(m) == m.readers = {}

Goto(t, loc) == pc' = [pc EXCEPT ![t] = loc]
Result_(t, res, out) == cur' = [cur EXCEPT ![t].res = res, ![t].out = out]
Fixed == UNCHANGED <<keys, window, hist, capacity, twin>>

\* the file a Put or a SerializeBTree writes
PathOf(c) == IF c.op = "Put" THEN FilePath(c.key) ELSE c.key

\* a goroutine calls Put, Get or Delete with the empty key: the call returns
\* at once
CallInvalid(t) ==
    /\ pc[t] = "idle"
    /\ calls > 0
    /\ calls' = calls - 1
    /\ \E op \in {"Put", "Get", "Delete"}, key \in {EmptyKey}, value \in Values :
          /\ Invalid(key)
          /\ Returned(op, key, IF op = "Put" THEN value ELSE <<>>,
                      "InvalidArgument", <<>>, <<>>)
    /\ UNCHANGED <<cache, tree, files, pc, cur, mutex, committed>>
    /\ Fixed

\* a goroutine starts a call that goes for the lock
Call(t) ==
    /\ pc[t] = "idle"
    /\ calls > 0
    /\ calls' = calls - 1
    /\ \E op \in WriterOps \cup {"Get"}, key \in keys \cup {EmptyKey},
          value \in Values :
          /\ op \in {"Put", "Get", "Delete"} => ~Invalid(key)
          /\ op \notin {"Put", "Get", "Delete"} => key = EmptyKey
          /\ op # "Put" => value = <<>>
          /\ cur' = [cur EXCEPT ![t] =
                        [NoCall EXCEPT !.op = op,
                                       !.key = IF op \in {"SerializeBTree",
                                                          "DeserializeBTree"}
                                               THEN SnapPath ELSE key,
                                       !.val = value]]
          /\ Goto(t, IF op = "Get" THEN "rlock" ELSE "lock")
    /\ UNCHANGED <<cache, tree, files, last, mutex, committed>>
    /\ Fixed

\* d.mutex.Lock(), first half
Lock(t) ==
    /\ pc[t] = "lock"
    /\ CanLock(mutex)
    /\ mutex' = [mutex EXCEPT !.writer = t]
    /\ Goto(t, "wait")
    /\ UNCHANGED <<cache, tree, files, last, cur, committed, calls>>
    /\ Fixed

\* d.mutex.Lock(), second half
Locked(t) ==
    /\ pc[t] = "wait"
    /\ NoReaders(mutex)
    /\ Goto(t, "body")
    /\ UNCHANGED <<cache, tree, files, last, cur, mutex, committed, calls>>
    /\ Fixed

\* d.mutex.RLock()
RLock(t) ==
    /\ pc[t] = "rlock"
    /\ CanRLock(mutex)
    /\ mutex' = [mutex EXCEPT !.readers = @ \cup {t}]
    /\ Goto(t, "cacheGet")
    /\ UNCHANGED <<cache, tree, files, last, cur, committed, calls>>
    /\ Fixed

\* Put from the tree.Get to the ReplaceOrInsert
PutBody(t) ==
    /\ pc[t] = "body" /\ cur[t].op = "Put"
    /\ IF Unchanged(tree, cur[t].key, cur[t].val)
       THEN /\ Result_(t, "ok", <<>>)
            /\ Goto(t, "unlock")
            /\ UNCHANGED <<cache, tree>>
       ELSE /\ cache' = CacheAdd(cache, cur[t].key, cur[t].val)
            /\ tree' = ReplaceOrInsert(tree, cur[t].key, cur[t].val)
            /\ cur' = [cur EXCEPT ![t].data = Raw(cur[t].val)]
            /\ Goto(t, "write")
    /\ UNCHANGED <<files, last, mutex, committed, calls>>
    /\ Fixed

\* os.WriteFile(tempPath, ...) of Put and of SerializeBTree: it writes the
\* data, or fails and leaves no file, an empty one or a part of the data
WriteTemp(t) ==
    /\ pc[t] = "write"
    /\ LET tempPath == TempPath(PathOf(cur[t]))
       IN  \/ /\ files' = WriteFile(files, tempPath, cur[t].data)
              /\ Goto(t, "rename")
              /\ UNCHANGED cur
           \/ /\ \/ UNCHANGED files
                 \/ \E part \in PartialOf(cur[t].data) :
                       files' = WriteFile(files, tempPath, part)
              /\ Result_(t, "IOFailure", <<>>)
              /\ Goto(t, "unlock")
    /\ UNCHANGED <<cache, tree, last, mutex, committed, calls>>
    /\ Fixed

\* os.Rename(tempPath, filePath) of Put and of SerializeBTree
RenameTemp(t) ==
    /\ pc[t] = "rename"
    /\ LET filePath == PathOf(cur[t])
       IN  \/ /\ Exists(files, TempPath(filePath))
              /\ files' = Rename(files, TempPath(filePath), filePath)
              /\ Result_(t, "ok", <<>>)
           \/ /\ UNCHANGED files
              /\ Result_(t, "IOFailure", <<>>)
    /\ Goto(t, "unlock")
    /\ UNCHANGED <<cache, tree, last, mutex, committed, calls>>
    /\ Fixed

\* Delete from the tree.Delete to the cache.Remove
DeleteBody(t) ==
    /\ pc[t] = "body" /\ cur[t].op = "Delete"
    /\ IF Missing(tree, cur[t].key)
       THEN /\ Result_(t, "NotFound", <<>>)
            /\ Goto(t, "unlock")
            /\ UNCHANGED <<cache, tree>>
       ELSE /\ tree' = TreeDelete(tree, cur[t].key)
            /\ cache' = CacheRemove(cache, cur[t].key)
            /\ Goto(t, "remove")
            /\ UNCHANGED cur
    /\ UNCHANGED <<files, last, mutex, committed, calls>>
    /\ Fixed

\* os.Remove(filePath) of Delete; a file that does not exist is no error
RemoveFile(t) ==
    /\ pc[t] = "remove"
    /\ \/ /\ files' = Remove(files, FilePath(cur[t].key))
          /\ Result_(t, "ok", <<>>)
       \/ /\ Exists(files, FilePath(cur[t].key))
          /\ UNCHANGED files
          /\ Result_(t, "IOFailure", <<>>)
    /\ Goto(t, "unlock")
    /\ UNCHANGED <<cache, tree, last, mutex, committed, calls>>
    /\ Fixed

\* Compact from the os.ReadDir to the end of its loop
CompactBody(t) ==
    /\ pc[t] = "body" /\ cur[t].op = "Compact"
    /\ \/ /\ UNCHANGED files
          /\ Result_(t, "IOFailure", <<>>)
       \/ /\ \E failing \in SUBSET {n \in DOMAIN files : IsTemp(n)} :
                files' = Sweep(files, failing)
          /\ Result_(t, "ok", <<>>)
    /\ Goto(t, "unlock")
    /\ UNCHANGED <<cache, tree, last, mutex, committed, calls>>
    /\ Fixed

\* SerializeBTree from the tree.Ascend to the json.Marshal
SerializeBody(t) ==
    /\ pc[t] = "body" /\ cur[t].op = "SerializeBTree"
    /\ cur' = [cur EXCEPT ![t].data = Marshal(Ascend(tree))]
    /\ Goto(t, "write")
    /\ UNCHANGED <<cache, tree, files, last, mutex, committed, calls>>
    /\ Fixed

\* DeserializeBTree from the os.ReadFile to the last ReplaceOrInsert
DeserializeBody(t) ==
    /\ pc[t] = "body" /\ cur[t].op = "DeserializeBTree"
    /\ LET filePath == cur[t].key
       IN  \/ /\ UNCHANGED tree
              /\ Result_(t, "IOFailure", <<>>)
           \/ /\ Exists(files, filePath)
              /\ IF Unmarshal(files[filePath]).ok
                 THEN /\ tree' = Rebuilt(Unmarshal(files[filePath]).items)
                      /\ Result_(t, "ok", <<>>)
                 ELSE /\ UNCHANGED tree
                      /\ Result_(t, "DecodeFailure", <<>>)
    /\ Goto(t, "unlock")
    /\ UNCHANGED <<cache, files, last, mutex, committed, calls>>
    /\ Fixed

\* what the last Put or Delete of the key that returned success has
\* committed, "unknown" once a Put or a Delete of it has failed
Commit(c) ==
    IF c.op = "Put" /\ c.res = "ok" THEN [res |-> "ok", out |-> c.val]
    ELSE IF c.op = "Delete" /\ c.res = "ok" THEN [res |-> "NotFound", out |-> <<>>]
    ELSE IF c.op \in {"Put", "Delete"} /\ c.res = "IOFailure"
    THEN [res |-> "unknown", out |-> <<>>]
    ELSE committed

\* a return that gives the lock back after a success only, as an Unlock()
\* written at the end of the function and not deferred would
UnlockOnSuccess(t) ==
    /\ pc[t] = "unlock"
    /\ mutex' = IF cur[t].res = "ok" THEN [mutex EXCEPT !.writer = 0] ELSE mutex
    /\ Returned(cur[t].op, cur[t].key, cur[t].val, cur[t].res, cur[t].out, <<>>)
    /\ committed' = Commit(cur[t])
    /\ cur' = [cur EXCEPT ![t] = NoCall]
    /\ Goto(t, "idle")
    /\ UNCHANGED <<cache, tree, files, calls>>
    /\ Fixed

\* the deferred d.mutex.Unlock(), and the return
Unlock(t) ==
    /\ pc[t] = "unlock"
    /\ mutex' = [mutex EXCEPT !.writer = 0]
    /\ Returned(cur[t].op, cur[t].key, cur[t].val, cur[t].res, cur[t].out, <<>>)
    /\ committed' = Commit(cur[t])
    /\ cur' = [cur EXCEPT ![t] = NoCall]
    /\ Goto(t, "idle")
    /\ UNCHANGED <<cache, tree, files, calls>>
    /\ Fixed

\* Get: d.cache.Get(key)
GetCache(t) ==
    /\ pc[t] = "cacheGet"
    /\ IF CacheContains(cache, cur[t].key)
       THEN /\ cache' = CacheTouch(cache, cur[t].key)
            /\ Result_(t, "ok", CacheValue(cache, cur[t].key))
            /\ Goto(t, "runlock")
       ELSE /\ UNCHANGED <<cache, cur>>
            /\ Goto(t, "treeGet")
    /\ UNCHANGED <<tree, files, last, mutex, committed, calls>>
    /\ Fixed

\* what a tree.Get(key) can produce: found and value, or a panic.  A Get that
\* races with a ReplaceOrInsert reads nodes that are being rewritten: it may
\* miss the key, find it with the value being inserted, or panic.
TreeGets(t) ==
    LET key == cur[t].key
        proper == IF TreeHas(tree, key)
                  THEN [found |-> TRUE, value |-> tree[key], panic |-> FALSE]
                  ELSE [found |-> FALSE, value |-> <<>>, panic |-> FALSE]
    IN  IF ~Racing(t) THEN {proper}
        ELSE {proper,
              [found |-> FALSE, value |-> <<>>, panic |-> FALSE],
              [found |-> FALSE, value |-> <<>>, panic |-> TRUE]}
             \cup {[found |-> TRUE, value |-> cur[u].out, panic |-> FALSE] :
                     u \in {v \in Threads \ {t} :
                              pc[v] \in TreeWrites /\ cur[v].key = key}}

\* Get: d.tree.Get(&item{Key: key})
GetTree(t) ==
    /\ pc[t] = "treeGet"
    /\ \E got \in TreeGets(t) :
          IF got.panic
          THEN Result_(t, "panic", <<>>) /\ Goto(t, "runlock")
          ELSE IF got.found
          THEN Result_(t, "ok", got.value) /\ Goto(t, "cacheAddTree")
          ELSE UNCHANGED cur /\ Goto(t, "readFile")
    /\ UNCHANGED <<cache, tree, files, last, mutex, committed, calls>>
    /\ Fixed

\* Get: d.cache.Add(key, item.Value) after the tree hit
GetCacheAddTree(t) ==
    /\ pc[t] = "cacheAddTree"
    /\ cache' = CacheAdd(cache, cur[t].key, cur[t].out)
    /\ Goto(t, "runlock")
    /\ UNCHANGED <<tree, files, last, cur, mutex, committed, calls>>
    /\ Fixed

\* Get: os.ReadFile(filePath)
GetReadFile(t) ==
    /\ pc[t] = "readFile"
    /\ LET filePath == FilePath(cur[t].key)
       IN  IF ~Exists(files, filePath)
           THEN Result_(t, "NotFound", <<>>) /\ Goto(t, "runlock")
           ELSE \/ Result_(t, "IOFailure", <<>>) /\ Goto(t, "runlock")
                \/ Result_(t, "ok", ReadFile(files, filePath)) /\ Goto(t, "cacheAddDisk")
    /\ UNCHANGED <<cache, tree, files, last, mutex, committed, calls>>
    /\ Fixed

\* Get: d.cache.Add(key, value) after the read
GetCacheAddDisk(t) ==
    /\ pc[t] = "cacheAddDisk"
    /\ cache' = CacheAdd(cache, cur[t].key, cur[t].out)
    /\ Goto(t, "treeInsert")
    /\ UNCHANGED <<tree, files, last, cur, mutex, committed, calls>>
    /\ Fixed

\* what a tree.ReplaceOrInsert can leave: the item inserted, or, when it races
\* with another access to the tree, also the tree without it
TreeInserts(t) ==
    LET proper == ReplaceOrInsert(tree, cur[t].key, cur[t].out)
    IN  IF Racing(t) THEN {proper, tree} ELSE {proper}

\* Get: d.tree.ReplaceOrInsert(&item{Key: key, Value: value})
GetTreeInsert(t) ==
    /\ pc[t] = "treeInsert"
    /\ tree' \in TreeInserts(t)
    /\ Goto(t, "runlock")
    /\ UNCHANGED <<cache, files, last, cur, mutex, committed, calls>>
    /\ Fixed

\* the deferred d.mutex.RUnlock(), and the return
RUnlock(t) ==
    /\ pc[t] = "runlock"
    /\ mutex' = [mutex EXCEPT !.readers = @ \ {t}]
    /\ Returned(cur[t].op, cur[t].key, cur[t].val, cur[t].res, cur[t].out, <<>>)
    /\ cur' = [cur EXCEPT ![t] = NoCall]
    /\ Goto(t, "idle")
    /\ UNCHANGED <<cache, tree, files, committed, calls>>
    /\ Fixed

\* the process ends at any point and is started again over the directory: no
\* goroutine is left, and New gives an empty cache and an empty tree.  A Put
\* or a Delete cut after it took the lock leaves its key's state unknown.
Crash ==
    /\ calls > 0
    /\ calls' = calls - 1
    /\ \E t \in Threads : pc[t] # "idle"
    /\ pc' = [t \in Threads |-> "idle"]
    /\ cur' = [t \in Threads |-> NoCall]
    /\ mutex' = [writer |-> 0, readers |-> {}]
    /\ cache' = <<>>
    /\ tree' = EmptyTree
    /\ committed' =
          IF \E t \in Threads : pc[t] \in LockedSection /\ cur[t].op \in {"Put", "Delete"}
          THEN [res |-> "unknown", out |-> <<>>]
          ELSE committed
    /\ Returned("New", <<>>, <<>>, "ok", <<>>, <<>>)
    /\ UNCHANGED files
    /\ Fixed

\* New over the existing directory when the process had ended in good order
Reopen ==
    /\ calls > 0
    /\ calls' = calls - 1
    /\ \A t \in Threads : pc[t] = "idle"
    /\ cache' = <<>>
    /\ tree' = EmptyTree
    /\ Returned("New", <<>>, <<>>, "ok", <<>>, <<>>)
    /\ UNCHANGED <<files, pc, cur, mutex, committed>>
    /\ Fixed

ThreadStep(t) ==
    \/ CallInvalid(t)
    \/ Call(t)
    \/ Lock(t)
    \/ Locked(t)
    \/ RLock(t)
    \/ PutBody(t)
    \/ WriteTemp(t)
    \/ RenameTemp(t)
    \/ DeleteBody(t)
    \/ RemoveFile(t)
    \/ CompactBody(t)
    \/ SerializeBody(t)
    \/ DeserializeBody(t)
    \/ Unlock(t)
    \/ GetCache(t)
    \/ GetTree(t)
    \/ GetCacheAddTree(t)
    \/ GetReadFile(t)
    \/ GetCacheAddDisk(t)
    \/ GetTreeInsert(t)
    \/ RUnlock(t)

NextThreads ==
    \/ \E t \in Threads : ThreadStep(t)
    \/ Crash
    \/ Reopen

\* goroutines calling the Driver with one key
InitThreads == InitWith({KeyA}, MaxCalls, 0, CacheSize)
SpecThreads == InitThreads /\ [][NextThreads]_vars

\* the same, and longer runs
InitGets == InitWith({KeyA}, MaxCalls + 1, 0, CacheSize)
SpecGets == InitGets /\ [][NextThreads]_vars

\* goroutines calling the Driver with the key "btree.json", the name of the
\* snapshot main() keeps in the directory of the keys
InitSnapKey == InitWith({SnapPath}, MaxCalls, 0, CacheSize)
SpecSnapKey == InitSnapKey /\ [][NextThreads]_vars

\* the steps of a call after it has started: the goroutine runs on to the
\* return of the call
Runs(t) ==
    \/ Lock(t)
    \/ Locked(t)
    \/ RLock(t)
    \/ PutBody(t)
    \/ WriteTemp(t)
    \/ RenameTemp(t)
    \/ DeleteBody(t)
    \/ RemoveFile(t)
    \/ CompactBody(t)
    \/ SerializeBody(t)
    \/ DeserializeBody(t)
    \/ Unlock(t)
    \/ GetCache(t)
    \/ GetTree(t)
    \/ GetCacheAddTree(t)
    \/ GetReadFile(t)
    \/ GetCacheAddDisk(t)
    \/ GetTreeInsert(t)
    \/ RUnlock(t)

\* the process stays up: the goroutines' steps only
NextLive == \E t \in Threads : ThreadStep(t)

\* the Go scheduler runs every goroutine that can run: a goroutine whose next
\* step stays possible takes it.  For a goroutine at Lock() or at RLock()
\* that is the case once the lock is free and stays free until it is taken.
Fair == \A t \in Threads : WF_vars(Runs(t))

SpecLive == InitThreads /\ [][NextLive]_vars /\ Fair

-----------------------------------------------------------------------------
(* Two Drivers, each over a directory of its own, that are created with     *)
(* different cache sizes and get the same calls; no os call fails.  The     *)
(* first Driver is the one above; the second one is the record twin, and    *)
(* a call is the function from the Driver before it to the Driver after it. *)

Answer(d, res, out) == [d EXCEPT !.res = res, !.out = out]

\* Put(key, value) on the Driver d
PutOn(d, key, value) ==
    IF Unchanged(d.tree, key, value) THEN Answer(d, "ok", <<>>)
    ELSE [Answer(d, "ok", <<>>) EXCEPT
            !.cache = CacheAddN(d.cache, key, value, d.capacity),
            !.tree = ReplaceOrInsert(d.tree, key, value),
            !.files = WriteTempThenRename(d.files, FilePath(key), Raw(value),
                                          "done", Raw(value))]

\* Get(key) on the Driver d
GetOn(d, key) ==
    LET tier == Tier(d.cache, d.tree, d.files, key)
        got == GetResult(d.cache, d.tree, d.files, key)
    IN  [Answer(d, got.res, got.out) EXCEPT
            !.cache = IF tier = "cache" THEN CacheTouch(d.cache, key)
                      ELSE IF tier \in {"tree", "disk"}
                      THEN CacheAddN(d.cache, key, got.out, d.capacity)
                      ELSE d.cache,
            !.tree = IF tier = "disk" THEN ReplaceOrInsert(d.tree, key, got.out)
                     ELSE d.tree]

\* Delete(key) on the Driver d
DeleteOn(d, key) ==
    IF Missing(d.tree, key) THEN Answer(d, "NotFound", <<>>)
    ELSE [Answer(d, "ok", <<>>) EXCEPT
            !.tree = TreeDelete(d.tree, key),
            !.cache = CacheRemove(d.cache, key),
            !.files = Remove(d.files, FilePath(key))]

\* Compact() on the Driver d
CompactOn(d) == [Answer(d, "ok", <<>>) EXCEPT !.files = Sweep(d.files, {})]

\* SerializeBTree(filePath) on the Driver d
SerializeOn(d, filePath) ==
    LET data == Marshal(Ascend(d.tree))
    IN  [Answer(d, "ok", <<>>) EXCEPT
            !.files = WriteTempThenRename(d.files, filePath, data, "done", data)]

\* DeserializeBTree(filePath) on the Driver d
DeserializeOn(d, filePath) ==
    IF ~Exists(d.files, filePath) THEN Answer(d, "IOFailure", <<>>)
    ELSE IF ~Unmarshal(d.files[filePath]).ok THEN Answer(d, "DecodeFailure", <<>>)
    ELSE [Answer(d, "ok", <<>>) EXCEPT
            !.tree = Rebuilt(Unmarshal(d.files[filePath]).items)]

\* one call made to both Drivers
Both(call) ==
    /\ calls > 0
    /\ calls' = calls - 1
    /\ UNCHANGED <<keys, window, hist, capacity, pc, cur, mutex, committed>>
    /\ call

PutBoth ==
    \E key \in keys, value \in Values :
        Put(key, value, "done", Raw(value)) /\ twin' = PutOn(twin, key, value)

GetBoth == \E key \in keys : Get(key, "done") /\ twin' = GetOn(twin, key)

DeleteBoth == \E key \in keys : Delete(key, "done") /\ twin' = DeleteOn(twin, key)

CompactBoth == Compact("done", {}) /\ twin' = CompactOn(twin)

SerializeBoth ==
    /\ SerializeBTree(SnapPath, "done", Marshal(Ascend(tree)))
    /\ twin' = SerializeOn(twin, SnapPath)

DeserializeBoth ==
    DeserializeBTree(SnapPath, "done") /\ twin' = DeserializeOn(twin, SnapPath)

NextBoth ==
    \/ Both(PutBoth)
    \/ Both(GetBoth)
    \/ Both(DeleteBoth)
    \/ Both(CompactBoth)
    \/ Both(SerializeBoth)
    \/ Both(DeserializeBoth)

\* two keys; the first cache holds one of them at a time, the second one all
InitBoth == InitTwin(PairKeys, MaxCalls + 2, 0, CacheSize, CacheSize + 2)
SpecBoth == InitBoth /\ [][NextBoth]_vars

-----------------------------------------------------------------------------
(* Properties *)

\* name n is the same in the directories fs1 and fs2: in both or in neither,
\* and with the same content
SameFile(fs1, fs2, n) ==
    /\ Exists(fs1, n) <=> Exists(fs2, n)
    /\ Exists(fs1, n) => fs1[n] = fs2[n]

\* the file of key holds exactly value
Holds(fs, key, value) == Exists(fs, FilePath(key)) /\ fs[FilePath(key)] = Raw(value)

\* C1: a Put(k, v) that returned success, immediately followed by Get(k):
\* the Get returns exactly v.
C1_PutThenGet ==
    [][(/\ last.op = "Put"
        /\ last.res = "ok"
        /\ last'.op = "Get"
        /\ last'.key = last.key)
       => (last'.res = "ok" /\ last'.out = last.val)]_vars

\* C2: when a Put(k, v) or a Delete(k) has returned success, the three tiers
\* agree on k: after the Put the tree and the file hold v and the cache holds v
\* or nothing; after the Delete none of the three holds k.
C2_TiersAgree ==
    /\ (last.op = "Put" /\ last.res = "ok")
       => /\ TreeHas(tree, last.key) /\ tree[last.key] = last.val
          /\ Holds(files, last.key, last.val)
          /\ CacheContains(cache, last.key)
             => CacheValue(cache, last.key) = last.val
    /\ (last.op = "Delete" /\ last.res = "ok")
       => /\ ~TreeHas(tree, last.key)
          /\ ~CacheContains(cache, last.key)
          /\ ~Exists(files, FilePath(last.key))

\* C3: a crash at any step of Put(k, v) leaves the file k as it was before the
\* call (absent included) or holding exactly v, and changes no other file
\* than the temp file of k.
C3_CrashKeepsFileWhole ==
    [][(last'.op = "Put" /\ last'.res = "crash")
       => /\ \/ SameFile(files, files', FilePath(last'.key))
             \/ Holds(files', last'.key, last'.val)
          /\ \A n \in DOMAIN files \cup DOMAIN files' :
                n \notin {FilePath(last'.key), TempPath(FilePath(last'.key))}
                => SameFile(files, files', n)]_vars

\* a Put was cut between its write of the temp file and the rename, over an
\* older value: the orphaned temp file is there and the file still holds
\* the older value
C3_Witness ==
    /\ last.op = "Put"
    /\ last.res = "crash"
    /\ last.io = <<"WriteFile">>
    /\ Holds(files, TempPath(FilePath(last.key)), last.val)
    /\ Exists(files, FilePath(last.key))
    /\ ~Holds(files, last.key, last.val)

\* C4: a Delete(k) that returned success, immediately followed by Get(k): the
\* Get fails with NotFound.  Nothing is asked of what came before the Delete,
\* so this covers a Delete that follows a successful Put(k, v), whatever the
\* cache, the tree and the directory held before that Put.
C4_DeletedIsNotFound ==
    [][(/\ last.op = "Delete"
        /\ last.res = "ok"
        /\ last'.op = "Get"
        /\ last'.key = last.key)
       => last'.res = "NotFound"]_vars

\* Put(k, v), Delete(k), Get(k) in a row, the first two successful, the Put
\* not being the first call
C4_Witness ==
    /\ Len(hist) = 2
    /\ hist[1] = [op |-> "Put", key |-> KeyA, res |-> "ok"]
    /\ hist[2] = [op |-> "Delete", key |-> KeyA, res |-> "ok"]
    /\ last.op = "Get"
    /\ last.key = KeyA
    /\ last.res = "NotFound"
    /\ calls < MaxCalls - 2

\* C5: Delete(k) of a non-empty key the tree does not hold fails with NotFound
\* and leaves the cache, the tree and every file as they were.
C5_DeleteOfMissingKey ==
    [][(/\ last'.op = "Delete"
        /\ last'.key # EmptyKey
        /\ ~TreeHas(tree, last'.key))
       => /\ last'.res = "NotFound"
          /\ cache' = cache
          /\ tree' = tree
          /\ files' = files]_vars

\* a Delete failed with NotFound although the cache and the directory hold the key
C5_Witness ==
    /\ last.op = "Delete"
    /\ last.res = "NotFound"
    /\ CacheContains(cache, last.key)
    /\ Exists(files, FilePath(last.key))

\* C6: Put(k, v) when the tree holds v for k returns success and changes
\* nothing: no os call is made and the cache, its order included, the tree and
\* the directory stay; so a Put(k, v) repeated right after a Put(k, v) that
\* returned makes no write.
C6_UnchangedPutIsNoop ==
    [][/\ (/\ last'.op = "Put"
           /\ last'.key # EmptyKey
           /\ TreeHas(tree, last'.key)
           /\ tree[last'.key] = last'.val)
          => /\ last'.res = "ok"
             /\ last'.io = <<>>
             /\ cache' = cache
             /\ tree' = tree
             /\ files' = files
       /\ (/\ last.op = "Put"
           /\ last.res \in {"ok", "IOFailure"}
           /\ last'.op = "Put"
           /\ last'.key = last.key
           /\ last'.val = last.val)
          => last'.io = <<>>]_vars

\* an unchanged Put returned success while the cache is full of other keys
C6_Witness ==
    /\ last.op = "Put"
    /\ last.res = "ok"
    /\ last.io = <<>>
    /\ Len(cache) = CacheSize
    /\ ~CacheContains(cache, last.key)

\* C7: after a Put on k that failed on its write or rename, the next Put on k
\* that returns success leaves the file of k holding what the tree holds for k.
C7_NextPutHeals ==
    [][(/\ last.op = "Put"
        /\ last.res = "IOFailure"
        /\ last'.op = "Put"
        /\ last'.key = last.key
        /\ last'.res = "ok")
       => /\ TreeHas(tree', last'.key)
          /\ Holds(files', last'.key, tree'[last'.key])]_vars

\* C8: a SerializeBTree(path) that returned success, immediately followed by a
\* successful DeserializeBTree(path): the tree is the one that was saved, with
\* the same keys and the same value for every key.
C8_RoundTrip ==
    [][(/\ last.op = "SerializeBTree"
        /\ last.res = "ok"
        /\ last'.op = "DeserializeBTree"
        /\ last'.key = last.key
        /\ last'.res = "ok")
       => tree' = tree]_vars

\* the entries of the decoded items: the keys, and for a key the value of the
\* last item that has it
KeysOf(items) == {items[i].Key : i \in 1..Len(items)}
ValueOf(items, key) ==
    items[Max({i \in 1..Len(items) : items[i].Key = key})].Value

\* the file at path is there and decodes
Decodes(fs, path) == Exists(fs, path) /\ Unmarshal(fs[path]).ok

\* C9: a DeserializeBTree(path) that fails leaves the tree as it was, and it
\* fails whenever the file is missing or does not decode; one that succeeds has
\* read a file that decodes and leaves in the tree exactly the decoded entries.
C9_DeserializeAllOrNothing ==
    [][(last'.op = "DeserializeBTree")
       => /\ last'.res \in {"ok", "IOFailure", "DecodeFailure"}
          /\ ~Decodes(files, last'.key) => last'.res # "ok"
          /\ last'.res # "ok" => tree' = tree
          /\ last'.res = "ok"
             => LET items == Unmarshal(files[last'.key]).items
                IN  /\ Decodes(files, last'.key)
                    /\ DOMAIN tree' = KeysOf(items)
                    /\ \A k \in DOMAIN tree' : tree'[k] = ValueOf(items, k)]_vars

\* a DeserializeBTree of a truncated document failed and the tree still holds
\* its entries
C9_Witness ==
    /\ last.op = "DeserializeBTree"
    /\ last.res = "DecodeFailure"
    /\ files[last.key] = JsonTruncated
    /\ tree # EmptyTree

\* a DeserializeBTree succeeded and an entry the tree held before is gone
C9_WitnessReplaced ==
    /\ last.op = "DeserializeBTree"
    /\ last.res = "ok"
    /\ \E k \in keys : CacheContains(cache, k) /\ ~TreeHas(tree, k)

\* name carries the temp suffix
HasTmpSuffix(name) ==
    /\ Len(name) >= Len(TmpSuffix)
    /\ SubSeq(name, Len(name) - Len(TmpSuffix) + 1, Len(name)) = TmpSuffix

\* the removals of a Compact that failed
FailedRemovals(io) == {i \in 1..Len(io) : io[i] = "Remove:err"}

\* C10 as stated: after Compact returns, no file with the temp suffix is left
\* and every file without it is as before.
C10_CompactLeavesNoTemp ==
    [][(last'.op = "Compact")
       => /\ \A n \in DOMAIN files' : ~HasTmpSuffix(n)
          /\ \A n \in DOMAIN files \cup DOMAIN files' :
                ~HasTmpSuffix(n) => SameFile(files, files', n)]_vars

\* C10, amended: after Compact returns, every file without the temp suffix is
\* as before and a file with the suffix is either gone or as before; when
\* Compact could not list the directory nothing is removed; otherwise as many
\* files with the suffix are left as removals failed, so none if none failed.
C10_CompactBestEffort ==
    [][(last'.op = "Compact")
       => /\ \A n \in DOMAIN files \cup DOMAIN files' :
                ~HasTmpSuffix(n) => SameFile(files, files', n)
          /\ \A n \in DOMAIN files' : SameFile(files, files', n)
          /\ last'.res \in {"ok", "IOFailure"}
          /\ last'.res = "IOFailure" => files' = files
          /\ last'.res = "ok" =>
                Cardinality({n \in DOMAIN files' : HasTmpSuffix(n)})
                    = Cardinality(FailedRemovals(last'.io))]_vars

\* Compact removed an orphaned temp file and left the files of the keys and
\* the snapshot
C10_Witness ==
    /\ last.op = "Compact"
    /\ last.res = "ok"
    /\ "Remove" \in {last.io[i] : i \in 1..Len(last.io)}
    /\ FailedRemovals(last.io) = {}
    /\ \E k \in keys : ~HasTmpSuffix(k) /\ Exists(files, FilePath(k))
    /\ Exists(files, SnapPath)

\* C11: Compact never removes or alters the durable file of a key.  The case
\* checked: a Put(k, v) returned success and Compact is the very next call;
\* the file of k is then the same after Compact as before.
C11_CompactKeepsDurable ==
    [][(/\ last.op = "Put"
        /\ last.res = "ok"
        /\ last'.op = "Compact")
       => SameFile(files, files', FilePath(last.key))]_vars

\* C20: a Put(k, v) or a Delete(k) that returns, whatever it returns, leaves every other
\* key as it was: its tree entry and its file, existence and content.
C20_OtherKeysUntouched ==
    [][(/\ calls' = calls - 1
        /\ last'.op \in {"Put", "Delete"}
        /\ last'.res # "crash")
       => \A k \in keys \ {last'.key} :
             /\ TreeHas(tree, k) <=> TreeHas(tree', k)
             /\ TreeHas(tree, k) => tree'[k] = tree[k]
             /\ SameFile(files, files', FilePath(k))]_vars

\* the cache c holds exactly value for key
CacheHolds(c, key, value) == CacheContains(c, key) /\ CacheValue(c, key) = value

\* C15: a Get(k) that returns resolves in tier order and populates the faster
\* tiers.  Cache hit: the cached value, no read of the disk, tree and disk
\* unchanged.  Cache miss, tree hit: the tree's value, now also in the cache.
\* Miss in both, file present and read: the file's content, now also in cache
\* and tree.  In none: NotFound, and cache, tree and disk unchanged.
C15_GetTierOrder ==
    [][(/\ calls' = calls - 1
        /\ last'.op = "Get"
        /\ last'.res # "IOFailure")
       => LET k == last'.key
              inCache == CacheContains(cache, k)
              inTree == TreeHas(tree, k)
              onDisk == Exists(files, FilePath(k))
          IN  /\ files' = files
              /\ inCache =>
                    /\ last'.res = "ok" /\ last'.out = CacheValue(cache, k)
                    /\ last'.io = <<>>
                    /\ tree' = tree
              /\ (~inCache /\ inTree) =>
                    /\ last'.res = "ok" /\ last'.out = tree[k]
                    /\ last'.io = <<>>
                    /\ CacheHolds(cache', k, tree[k])
                    /\ tree' = tree
              /\ (~inCache /\ ~inTree /\ onDisk) =>
                    /\ last'.res = "ok" /\ last'.out = ReadFile(files, FilePath(k))
                    /\ CacheHolds(cache', k, last'.out)
                    /\ tree' = ReplaceOrInsert(tree, k, last'.out)
              /\ (~inCache /\ ~inTree /\ ~onDisk) =>
                    /\ last'.res = "NotFound"
                    /\ cache' = cache /\ tree' = tree]_vars

\* a Get found the key on disk only, and cache and tree now hold what it read
C15_Witness ==
    /\ last.op = "Get" /\ last.res = "ok" /\ last.io = <<"ReadFile">>
    /\ CacheHolds(cache, last.key, last.out)
    /\ TreeHas(tree, last.key) /\ tree[last.key] = last.out
    /\ last.out # <<>>

\* C14: the process was started again (cache and tree empty) and has since
\* served nothing but DeserializeBTree of the snapshot; the Get(k) that follows returns the
\* content of the file of k if that file exists, and NotFound if it does not.
C14_DiskIsTruthAfterRestart ==
    [][(/\ last.boot
        /\ calls' = calls - 1
        /\ last'.op = "Get"
        /\ last'.res # "IOFailure")
       => IF Exists(files, FilePath(last'.key))
          THEN last'.res = "ok" /\ last'.out = ReadFile(files, FilePath(last'.key))
          ELSE last'.res = "NotFound"]_vars

\* the keys of the cache c
CacheKeysOf(c) == {c[i].key : i \in 1..Len(c)}

\* C19: the cache never holds more entries than its capacity.  A call that
\* does cache.Add(k) or hits k in the cache makes k the most recently used
\* entry and keeps the order of the others; an Add of a new key to a full
\* cache drops exactly the least recently used entry; Remove (in Delete) keeps
\* the order of the others; and the tree entry and the file of a key that left
\* the cache by eviction are as before.
C19_CacheBoundedLRU ==
    [][(calls' = calls - 1 /\ last'.res \notin {"crash", "InvalidArgument"})
       => LET k == last'.key
              put == last'.op = "Put" /\ ~(TreeHas(tree, k) /\ tree[k] = last'.val)
              got == last'.op = "Get" /\ last'.res = "ok"
              deleted == last'.op = "Delete" /\ last'.res # "NotFound"
              evicted == CacheKeysOf(cache) \ (CacheKeysOf(cache') \cup {k})
          IN  /\ Len(cache') <= capacity
              /\ Cardinality(CacheKeysOf(cache')) = Len(cache')
              /\ (put \/ got) =>
                    /\ cache'[1].key = k
                    /\ Tail(cache') =
                          IF CacheContains(cache, k) THEN CacheWithout(cache, k)
                          ELSE IF Len(cache) = capacity
                          THEN SubSeq(cache, 1, Len(cache) - 1)
                          ELSE cache
              /\ deleted => cache' = CacheWithout(cache, k)
              /\ ~(put \/ got \/ deleted \/ last'.op = "New") => cache' = cache
              /\ last'.op # "New" =>
                    \A e \in evicted :
                       /\ TreeHas(tree, e) <=> TreeHas(tree', e)
                       /\ TreeHas(tree, e) => tree'[e] = tree[e]
                       /\ SameFile(files, files', FilePath(e))]_vars

\* a Put to a full cache has evicted a key: the key is still in the tree and
\* on disk, the cache is full, and the key put is the most recently used
C19_Witness ==
    /\ last.op = "Put" /\ last.res = "ok"
    /\ Len(cache) = capacity
    /\ capacity > 1
    /\ cache[1].key = last.key
    /\ \E e \in keys \ CacheKeysOf(cache) :
          TreeHas(tree, e) /\ Exists(files, FilePath(e))

\* goroutine t is in a call that takes the exclusive lock
Writing(t) == cur[t].op \in WriterOps

\* C12: while a Put, Delete, Compact, SerializeBTree or DeserializeBTree is
\* inside its locked section, no other call is inside its locked section.
C12_WritersExclude ==
    \A t \in Threads :
        (Inside(t) /\ Writing(t)) => \A u \in Threads \ {t} : ~Inside(u)

\* a writer is inside its locked section while a Get waits for the lock
C12_Witness ==
    \E t \in Threads, u \in Threads :
        /\ Inside(t) /\ Writing(t)
        /\ pc[u] = "rlock"

\* two Get calls are inside their locked sections at the same time
C12_WitnessReaders ==
    \E t \in Threads, u \in Threads :
        t # u /\ Inside(t) /\ Inside(u) /\ cur[t].op = "Get" /\ cur[u].op = "Get"

\* C13: Get calls that run concurrently with no writer in flight do not wait
\* for each other, and each returns what the last Put or Delete of the key
\* that returned success left: the value put, or NotFound.
C13_ConcurrentGets ==
    [][\A t \in Threads :
          /\ (pc[t] = "rlock" /\ \A u \in Threads : ~Writing(u)) => CanRLock(mutex)
          /\ (/\ pc[t] = "runlock" /\ pc'[t] = "idle" /\ last'.op = "Get"
              /\ cur[t].res \in {"ok", "NotFound"}
              /\ committed.res # "unknown"
              /\ \A u \in Threads : ~Writing(u)
              /\ \E u \in Threads \ {t} : cur[u].op = "Get" /\ Inside(u))
             => (cur[t].res = committed.res /\ cur[t].out = committed.out)]_vars

\* C16: a Put, Get or Delete with the empty key returns InvalidArgument in the
\* step it is called, with cache, tree, directory and lock unchanged, and is
\* never found going for the lock.
C16_EmptyKeyRejected ==
    [][/\ \A t \in Threads :
             (pc'[t] # "idle" /\ cur'[t].op \in {"Put", "Get", "Delete"})
                => cur'[t].key # EmptyKey
       /\ (/\ calls' = calls - 1
           /\ pc' = pc
           /\ last'.op \in {"Put", "Get", "Delete"})
          => /\ last'.key = EmptyKey
             /\ last'.res = "InvalidArgument"
             /\ UNCHANGED <<cache, tree, files, mutex, cur>>]_vars

\* a call with the empty key has returned while another call held the lock
\* exclusively
C16_Witness ==
    /\ last.res = "InvalidArgument" /\ last.key = EmptyKey
    /\ \E t \in Threads : pc[t] \in LockedSection /\ mutex.writer = t

\* C17: the file at the snapshot path is never a part of a document, and
\* whenever it changes it becomes the document of the tree as it is at that
\* instant: crashes, failed writes and concurrent calls included.
C17_SnapshotWhole ==
    [][/\ Exists(files', SnapPath) => Unmarshal(files'[SnapPath]).ok
       /\ ~SameFile(files, files', SnapPath)
          => /\ Exists(files', SnapPath)
             /\ files'[SnapPath] = Marshal(Ascend(tree'))
             /\ tree' = tree]_vars

\* SerializeBTree has replaced an older snapshot by the document of the tree
\* while a Put or a Delete of another goroutine waited for the lock
C17_Witness ==
    /\ last.op = "SerializeBTree" /\ last.res = "ok"
    /\ tree # EmptyTree
    /\ Exists(files, SnapPath) /\ files[SnapPath] = Marshal(Ascend(tree))
    /\ \E t \in Threads : pc[t] = "lock" /\ cur[t].op \in {"Put", "Delete"}

\* the process ended while SerializeBTree was writing: a part of a document
\* in the temp file, none at the snapshot path
C17_WitnessCrash ==
    /\ last.op = "New"
    /\ Exists(files, TempPath(SnapPath))
    /\ ~Unmarshal(files[TempPath(SnapPath)]).ok

\* C18: the tree is accessed only inside a locked section, it is written only
\* by the goroutine that holds the lock exclusively, and no two goroutines are
\* at an access to the tree at the same time when one of them writes it.
C18_IndexUnderLock ==
    \A t \in Threads :
        /\ TreeAccess(t) => Inside(t)
        /\ TreeWrite(t) => mutex.writer = t
        /\ ~Racing(t)

\* C21: two Drivers that differ in the size of their caches only and get the
\* same calls, none of which runs into a failing os call, return the same
\* result, value and error kind, call by call.
C21_CacheTransparent ==
    last.op # "New" => (last.res = twin.res /\ last.out = twin.out)

\* no goroutine has the lock, exclusively or shared
LockFree == mutex = [writer |-> 0, readers |-> {}]

\* C22: every call gives the lock back on every return, the returns with an
\* error included: the lock is held by goroutines inside a call only, and it
\* is free when no call is in progress; and under fair scheduling every call
\* that has started returns.
C22_LockReleasedCallsReturn ==
    /\ [](\A t \in Threads :
            /\ mutex.writer = t => pc[t] \in LockedSection \cup {"wait"}
            /\ t \in mutex.readers <=> pc[t] \in RLockedSection)
    /\ []((\A t \in Threads : pc[t] = "idle") => LockFree)
    /\ \A t \in Threads : (pc[t] # "idle") ~> (pc[t] = "idle")

\* a call waits at Lock() while the call that holds the lock is about to
\* return an error
C22_Witness ==
    \E t \in Threads, u \in Threads :
        /\ pc[t] = "lock"
        /\ pc[u] = "unlock" /\ mutex.writer = u
        /\ cur[u].res = "IOFailure"

\* a call has returned an error, no call is in progress and the lock is free
C22_WitnessReturned ==
    /\ last.res \in {"IOFailure", "NotFound"}
    /\ \A t \in Threads : pc[t] = "idle"
    /\ LockFree

=============================================================================
